---- MODULE Spec2Model ----
(***************************************************************************)
(* Model of src/Solver.py: the university lecture timetabling ILP.         *)
(*                                                                         *)
(* solve_schedule builds a 0/1 linear program (one binary variable per     *)
(* tuple (d, p, c, g, r, t), an objective, six families of constraints),   *)
(* hands it to the solver behind prob.solve(), and returns the status, the *)
(* value of the objective and the tuples whose variable is positive.       *)
(* main() collects the instance from the sidebar and calls solve_schedule. *)
(*                                                                         *)
(* The builder is modelled statement by statement: prob holds the          *)
(* objective coefficients and the set of linear constraints the code adds. *)
(* Every constraint of the code has coefficient 1 on a set of variables,   *)
(* so a constraint is [vars, sense, rhs].                                  *)
(*                                                                         *)
(* prob.solve() is the external solver.  Its contract: when the            *)
(* constraints have a 0/1 solution it returns status 1 (Optimal) and       *)
(* leaves one maximising solution in the variables (which one is the       *)
(* solver's choice); when they have none it returns status -1              *)
(* (Infeasible) and leaves in the variables whatever point it last held,   *)
(* which need not satisfy the constraints and need not be integral.        *)
(* Variable values are held in HALVES (0, 1, 2 stand for 0, 1/2, 1) so     *)
(* that such a point can be written; the objective value is in halves too. *)
(* A problem over binary variables is never unbounded and the code gives   *)
(* the solver no limit, so no other status is produced.  An Optimal        *)
(* solution is taken to be exactly 0/1 (no solver tolerance).              *)
(*                                                                         *)
(* solve_schedule reads assigned_courses_groups[p] without a default, so   *)
(* that map has a key for every professor; the other maps are read with    *)
(* .get() and may lack keys.                                               *)
(***************************************************************************)
EXTENDS Integers, FiniteSets, Sequences, TLC

\* Bounds of the explored instances.
MaxDim == 2       \* largest cardinality of any one primary set
MaxVars == 4      \* largest number of decision variables (product of the six)
MaxPeriods == 2   \* largest total of required periods, and of weekly loads
MaxPref == 1      \* largest preference score

VARIABLES pc, caller, args, prob, x, status, result

vars == <<pc, caller, args, prob, x, status, result>>

None == "None"

\* pulp.LpStatusOptimal and pulp.LpStatusInfeasible, the values of prob.status
LpStatusOptimal == 1
LpStatusInfeasible == -1

----------------------------------------------------------------------------
\* Helpers

RECURSIVE Sum(_, _)
\* sum of f[e] over e in S
Sum(f, S) ==
    IF S = {} THEN 0
    ELSE LET e == CHOOSE e \in S : TRUE IN f[e] + Sum(f, S \ {e})

\* dict.get(k, default)
Get(m, k, default) == IF k \in DOMAIN m THEN m[k] ELSE default

\* main(): days = range(1, Nd + 1), ...
days(a) == 1..a.Nd
professors(a) == 1..a.Np
time_periods(a) == 1..a.Nt
courses(a) == 1..a.Nc
rooms(a) == 1..a.Nr
groups(a) == 1..a.Ng

\* The keys of x: every tuple (d, p, c, g, r, t)
Keys(a) ==
    days(a) \X professors(a) \X courses(a) \X groups(a) \X rooms(a) \X time_periods(a)

\* Order of "for d .. for p .. for c .. for g .. for r .. for t"
RECURSIVE LexLess(_, _, _)
LexLess(u, v, i) ==
    IF i > Len(u) THEN FALSE
    ELSE IF u[i] # v[i] THEN u[i] < v[i]
    ELSE LexLess(u, v, i + 1)

RECURSIVE InLoopOrder(_)
\* the tuples of S in the order the nested loops enumerate them
InLoopOrder(S) ==
    IF S = {} THEN <<>>
    ELSE LET m == CHOOSE m \in S : \A o \in S \ {m} : LexLess(m, o, 1)
         IN <<m>> \o InLoopOrder(S \ {m})

----------------------------------------------------------------------------
\* The model builder, solve_schedule lines 7-53

\* a builder that asks for the smallest total preference
SenseMinimize == "LpMinimize"

\* line 7: pulp.LpMaximize
Sense == "LpMaximize"

\* line 13: the coefficient of x[d,p,c,g,r,t] in the objective
Coefficient(a, v) == Get(a.preference_data, <<v[1], v[2], v[6]>>, 0)

Objective(a) == [v \in Keys(a) |-> Coefficient(a, v)]

\* lines 17-20
Constraint1(a) ==
    { [vars |-> {k[1]} \X {k[2]} \X courses(a) \X groups(a) \X rooms(a) \X {k[3]},
       sense |-> "<=", rhs |-> 1] : k \in days(a) \X professors(a) \X time_periods(a) }

\* lines 23-26
Constraint2(a) ==
    { [vars |-> {k[1]} \X professors(a) \X courses(a) \X {k[2]} \X rooms(a) \X {k[3]},
       sense |-> "<=", rhs |-> 1] : k \in days(a) \X groups(a) \X time_periods(a) }

\* a builder without the room family
Constraint3Missing(a) == {}

\* lines 29-32
Constraint3(a) ==
    { [vars |-> {k[1]} \X professors(a) \X courses(a) \X groups(a) \X {k[2]} \X {k[3]},
       sense |-> "<=", rhs |-> 1] : k \in days(a) \X rooms(a) \X time_periods(a) }

\* line 41: the condition under which x[d,p,c,g,r,t] is forced to 0
Excluded(a, v) ==
    \/ <<v[3], v[4]>> \notin a.assigned_courses_groups[v[2]]
    \/ v[6] \notin Get(a.available_time_periods, <<v[1], v[2]>>, {})
    \/ v[6] \notin Get(a.room_availability, <<v[1], v[5]>>, {})

\* lines 35-42
Constraint4(a) ==
    { [vars |-> {v}, sense |-> "==", rhs |-> 0] : v \in {w \in Keys(a) : Excluded(a, w)} }

\* a builder without the required-periods family
Constraint5Missing(a) == {}

\* a builder that takes the required periods as an upper limit
Constraint5AtMost(a) ==
    { [vars |-> days(a) \X professors(a) \X {k[1]} \X {k[2]} \X rooms(a) \X time_periods(a),
       sense |-> "<=", rhs |-> Get(a.required_teaching_periods, k, 0)]
      : k \in courses(a) \X groups(a) }

\* lines 45-48
Constraint5(a) ==
    { [vars |-> days(a) \X professors(a) \X {k[1]} \X {k[2]} \X rooms(a) \X time_periods(a),
       sense |-> "==", rhs |-> Get(a.required_teaching_periods, k, 0)]
      : k \in courses(a) \X groups(a) }

\* a builder that takes the weekly load as an upper limit
Constraint6AtMost(a) ==
    { [vars |-> days(a) \X {p} \X courses(a) \X groups(a) \X rooms(a) \X time_periods(a),
       sense |-> "<=", rhs |-> Get(a.weekly_teaching_load, p, 0)]
      : p \in professors(a) }

\* lines 51-53
Constraint6(a) ==
    { [vars |-> days(a) \X {p} \X courses(a) \X groups(a) \X rooms(a) \X time_periods(a),
       sense |-> "==", rhs |-> Get(a.weekly_teaching_load, p, 0)]
      : p \in professors(a) }

\* lines 7-53: the LpProblem handed to the solver
LpProblem(a) ==
    [ sense |-> Sense,
      variables |-> Keys(a),
      objective |-> Objective(a),
      constraints |-> Constraint1(a) \cup Constraint2(a) \cup Constraint3(a)
                        \cup Constraint4(a) \cup Constraint5(a) \cup Constraint6(a) ]

----------------------------------------------------------------------------
\* The solver behind prob.solve(), by its contract.  A 0/1 point is the set
\* of variables that are 1.

Holds(c, S) ==
    LET n == Cardinality(S \cap c.vars)
    IN IF c.sense = "<=" THEN n <= c.rhs ELSE n = c.rhs

\* the variables a constraint "sum == 0" fixes at 0
FixedAtZero(pr) ==
    UNION {c.vars : c \in {e \in pr.constraints : e.sense = "==" /\ e.rhs = 0}}

\* the 0/1 points that satisfy every constraint (those variables are 0 in each)
FeasiblePoints(pr) ==
    {S \in SUBSET (pr.variables \ FixedAtZero(pr)) : \A c \in pr.constraints : Holds(c, S)}

PointValue(pr, S) == Sum(pr.objective, S)

\* the best objective value over the points F, by the sense of the problem
BestValue(pr, F) ==
    LET V == {PointValue(pr, S) : S \in F}
    IN IF pr.sense = "LpMaximize" THEN CHOOSE b \in V : \A o \in V : b >= o
       ELSE CHOOSE b \in V : \A o \in V : b <= o

OptimalPoints(pr) ==
    LET F == FeasiblePoints(pr)
    IN IF F = {} THEN {}
       ELSE LET best == BestValue(pr, F) IN {S \in F : PointValue(pr, S) = best}

\* the variable values (in halves) of a 0/1 point
ValuesOf(pr, S) == [v \in pr.variables |-> IF v \in S THEN 2 ELSE 0]

\* What an unsuccessful solve may leave in the variables: any value of
\* [0, 1] in any variable.  Explored: every variable at 0, every variable at
\* 1/2, every variable at 1.
LeftoverValues(pr) == {[v \in pr.variables |-> h] : h \in {0, 1, 2}}

\* pulp.value(prob.objective), in halves
ObjectiveValue(pr, val) ==
    Sum([v \in pr.variables |-> pr.objective[v] * val[v]], pr.variables)

\* line 59: the returned list
Selected(pr, val) == InLoopOrder({v \in pr.variables : val[v] > 0})

----------------------------------------------------------------------------
\* The instances

Shapes ==
    {s \in [Nd : 1..MaxDim, Np : 1..MaxDim, Nt : 1..MaxDim,
            Nc : 1..MaxDim, Nr : 1..MaxDim, Ng : 1..MaxDim] :
        s.Nd * s.Np * s.Nt * s.Nc * s.Nr * s.Ng <= MaxVars}

\* The three maps that exclude tuples (line 41).  Explored: one of the three
\* is arbitrary and the other two exclude nothing.
Exclusions(s) ==
    LET A == [(1..s.Nd) \X (1..s.Np) -> SUBSET (1..s.Nt)]
        Q == [1..s.Np -> SUBSET ((1..s.Nc) \X (1..s.Ng))]
        R == [(1..s.Nd) \X (1..s.Nr) -> SUBSET (1..s.Nt)]
        allA == [k \in (1..s.Nd) \X (1..s.Np) |-> 1..s.Nt]
        allQ == [p \in 1..s.Np |-> (1..s.Nc) \X (1..s.Ng)]
        allR == [k \in (1..s.Nd) \X (1..s.Nr) |-> 1..s.Nt]
    IN {<<a, allQ, allR>> : a \in A} \cup {<<allA, q, allR>> : q \in Q}
          \cup {<<allA, allQ, r>> : r \in R}

\* the maps K -> Nat whose values add up to at most MaxPeriods
Periods(K) == {f \in [K -> 0..MaxPeriods] : Sum(f, K) <= MaxPeriods}

\* The instances of shape s with exclusion maps e.  Explored preferences: a
\* slot is indifferent (0) or preferred (MaxPref).
InstancesOf(s, e) ==
    [ Nd : {s.Nd}, Np : {s.Np}, Nt : {s.Nt}, Nc : {s.Nc}, Nr : {s.Nr}, Ng : {s.Ng},
      preference_data : [(1..s.Nd) \X (1..s.Np) \X (1..s.Nt) -> {0, MaxPref}],
      available_time_periods : {e[1]},
      assigned_courses_groups : {e[2]},
      room_availability : {e[3]},
      required_teaching_periods : Periods((1..s.Nc) \X (1..s.Ng)),
      weekly_teaching_load : Periods(1..s.Np) ]

Instances ==
    UNION { UNION { InstancesOf(s, e) : e \in Exclusions(s) } : s \in Shapes }

\* m without the keys whose value is d
Without(m, d) == [k \in {j \in DOMAIN m : m[j] # d} |-> m[k]]

\* The same instance held sparsely: a key whose value is the default of the
\* .get() that reads it is left out of the map.
Sparse(a) ==
    [a EXCEPT !.preference_data = Without(@, 0),
              !.available_time_periods = Without(@, {}),
              !.room_availability = Without(@, {}),
              !.required_teaching_periods = Without(@, 0),
              !.weekly_teaching_load = Without(@, 0)]

\* an input layer that shows the slider for every slot
CollectedAsEntered(a) == a

\* main() lines 118-130: the preference of a slot outside the professor's
\* availability is set to 0, the slider is only shown for the others
Collected(a) ==
    [a EXCEPT !.preference_data =
        [k \in DOMAIN @ |->
            IF k[3] \notin a.available_time_periods[<<k[1], k[2]>>] THEN 0 ELSE @[k]]]

----------------------------------------------------------------------------
\* The state machine

Init ==
    /\ pc = "idle"
    /\ caller = None
    /\ args \in Instances
    /\ prob = None
    /\ x = None
    /\ status = None
    /\ result = None

\* solve_schedule is entered with arguments a: lines 7-53 assemble prob
Enter(who, a) ==
    /\ pc = "idle"
    /\ pc' = "built"
    /\ caller' = who
    /\ args' = a
    /\ prob' = LpProblem(args')
    /\ UNCHANGED <<x, status, result>>

\* lines 56-59 with the solver leaving status st and values val
Leave(st, val) ==
    /\ pc = "built"
    /\ pc' = "returned"
    /\ status' = st
    /\ x' = val
    /\ result' = [status |-> st,
                  objectiveValue |-> ObjectiveValue(prob, x'),
                  assignments |-> Selected(prob, x')]
    /\ UNCHANGED <<caller, args, prob>>

\* main() lines 93-172: the sidebar is read and "Run Scheduler" is pressed
RunScheduler == Enter("main", Collected(args))

\* solve_schedule called by another caller, with maps of its own
DirectCall == \E sparse \in BOOLEAN : Enter("direct", IF sparse THEN Sparse(args) ELSE args)

\* lines 56-59, the constraints have a solution
SolveOptimal ==
    /\ pc = "built"
    /\ \E S \in OptimalPoints(prob) : Leave(LpStatusOptimal, ValuesOf(prob, S))

\* lines 56-59, the constraints have no solution
SolveInfeasible ==
    /\ pc = "built"
    /\ FeasiblePoints(prob) = {}
    /\ \E val \in LeftoverValues(prob) : Leave(LpStatusInfeasible, val)

Next ==
    \/ RunScheduler
    \/ DirectCall
    \/ SolveOptimal
    \/ SolveInfeasible

Spec == Init /\ [][Next]_vars

----------------------------------------------------------------------------
\* What the properties are stated in: the instance and the returned triple

Returned == pc = "returned"

Optimal == Returned /\ result.status = LpStatusOptimal

Positions == DOMAIN result.assignments

Tuple(i) == result.assignments[i]

\* Preference[(Day, Professor, TimePeriod)] of a tuple, a missing key being 0
Preference(a, v) ==
    IF <<v[1], v[2], v[6]>> \in DOMAIN a.preference_data
    THEN a.preference_data[<<v[1], v[2], v[6]>>] ELSE 0

\* AvailableTimePeriods[(Day, Professor)], a missing key being the empty set
ProfessorFree(a, d, p) ==
    IF <<d, p>> \in DOMAIN a.available_time_periods
    THEN a.available_time_periods[<<d, p>>] ELSE {}

\* RoomAvailability[(Day, Room)], a missing key being the empty set
RoomFree(a, d, r) ==
    IF <<d, r>> \in DOMAIN a.room_availability
    THEN a.room_availability[<<d, r>>] ELSE {}

Required(a, c, g) ==
    IF <<c, g>> \in DOMAIN a.required_teaching_periods
    THEN a.required_teaching_periods[<<c, g>>] ELSE 0

Load(a, p) ==
    IF p \in DOMAIN a.weekly_teaching_load THEN a.weekly_teaching_load[p] ELSE 0

\* the domain-restriction family, for one tuple
Allowed(a, v) ==
    /\ v[6] \in ProfessorFree(a, v[1], v[2])
    /\ v[6] \in RoomFree(a, v[1], v[5])
    /\ <<v[3], v[4]>> \in a.assigned_courses_groups[v[2]]

\* the three at-most-one families, for two tuples
Clash(u, v) ==
    /\ u[1] = v[1]
    /\ u[6] = v[6]
    /\ (u[2] = v[2] \/ u[4] = v[4] \/ u[5] = v[5])

\* the set S of tuples satisfies the six constraint families of instance a
SatisfiesFamilies(a, S) ==
    /\ \A u \in S : \A v \in S \ {u} : ~Clash(u, v)
    /\ \A v \in S : Allowed(a, v)
    /\ \A c \in 1..a.Nc : \A g \in 1..a.Ng :
          Cardinality({v \in S : v[3] = c /\ v[4] = g}) = Required(a, c, g)
    /\ \A p \in 1..a.Np : Cardinality({v \in S : v[2] = p}) = Load(a, p)

AllTuples(a) == (1..a.Nd) \X (1..a.Np) \X (1..a.Nc) \X (1..a.Ng) \X (1..a.Nr) \X (1..a.Nt)

\* every 0/1 assignment that satisfies the six families
Schedules(a) ==
    {S \in SUBSET {v \in AllTuples(a) : Allowed(a, v)} : SatisfiesFamilies(a, S)}

RECURSIVE Score(_, _)
\* total preference of the tuples S
Score(a, S) ==
    IF S = {} THEN 0
    ELSE LET v == CHOOSE v \in S : TRUE IN Preference(a, v) + Score(a, S \ {v})

RECURSIVE ListScore(_, _)
\* total preference of the returned list from position i on, one term per position
ListScore(a, i) ==
    IF i > Len(result.assignments) THEN 0
    ELSE Preference(a, Tuple(i)) + ListScore(a, i + 1)

RECURSIVE Total(_, _)
Total(f, S) ==
    IF S = {} THEN 0
    ELSE LET e == CHOOSE e \in S : TRUE IN f[e] + Total(f, S \ {e})

----------------------------------------------------------------------------
\* C1: when the status is Optimal, no two distinct returned tuples agree on
\* (Day, Professor, TimePeriod), on (Day, Group, TimePeriod) or on
\* (Day, Room, TimePeriod).
C1_NoDoubleBooking ==
    Optimal =>
        \A i \in Positions : \A j \in Positions \ {i} :
            /\ ~(Tuple(i)[1] = Tuple(j)[1] /\ Tuple(i)[2] = Tuple(j)[2] /\ Tuple(i)[6] = Tuple(j)[6])
            /\ ~(Tuple(i)[1] = Tuple(j)[1] /\ Tuple(i)[4] = Tuple(j)[4] /\ Tuple(i)[6] = Tuple(j)[6])
            /\ ~(Tuple(i)[1] = Tuple(j)[1] /\ Tuple(i)[5] = Tuple(j)[5] /\ Tuple(i)[6] = Tuple(j)[6])

\* an Optimal timetable of two lessons by different professors in the same
\* room: they are in different slots
C1_Witness ==
    /\ Optimal
    /\ Len(result.assignments) = 2
    /\ Tuple(1)[2] # Tuple(2)[2]
    /\ Tuple(1)[5] = Tuple(2)[5]

\* C2: no returned tuple (d, p, c, g, r, t) has t outside
\* AvailableTimePeriods[(d, p)], t outside RoomAvailability[(d, r)] or (c, g)
\* outside AssignedCoursesGroups[p], a missing availability key being empty.
C2_OnlyAllowedTuples ==
    Returned => \A i \in Positions : Allowed(args, Tuple(i))

\* the same for the returns with status Optimal only
C2_OnlyAllowedTuplesWhenOptimal ==
    Optimal => \A i \in Positions : Allowed(args, Tuple(i))

\* C3: when the status is Optimal, the number of returned tuples of each
\* (Course, Group) equals RequiredTeachingPeriods[(Course, Group)], a missing
\* pair requiring 0.
C3_RequiredPeriodsMet ==
    Optimal =>
        \A c \in 1..args.Nc : \A g \in 1..args.Ng :
            Cardinality({i \in Positions : Tuple(i)[3] = c /\ Tuple(i)[4] = g})
                = Required(args, c, g)

\* an Optimal timetable with a pair taught two periods and a pair that is
\* missing from the map
C3_Witness ==
    /\ Optimal
    /\ \E c \in 1..args.Nc : \E g \in 1..args.Ng :
          /\ Required(args, c, g) = 2
          /\ Cardinality({i \in Positions : Tuple(i)[3] = c /\ Tuple(i)[4] = g}) = 2
    /\ \E c \in 1..args.Nc : \E g \in 1..args.Ng :
          <<c, g>> \notin DOMAIN args.required_teaching_periods

\* C4: when the status is Optimal, the number of returned tuples of each
\* Professor equals WeeklyTeachingLoad[Professor], a missing professor having
\* load 0.
C4_WeeklyLoadMet ==
    Optimal =>
        \A p \in 1..args.Np :
            Cardinality({i \in Positions : Tuple(i)[2] = p}) = Load(args, p)

\* an Optimal timetable with a professor teaching two periods and a professor
\* that is missing from the map
C4_Witness ==
    /\ Optimal
    /\ \E p \in 1..args.Np :
          /\ Load(args, p) = 2
          /\ Cardinality({i \in Positions : Tuple(i)[2] = p}) = 2
    /\ \E p \in 1..args.Np : p \notin DOMAIN args.weekly_teaching_load

\* C5: the returned objective value equals the sum of
\* Preference[(Day, Professor, TimePeriod)] over the returned list, one term
\* per returned tuple, a missing key counting as 0.  (The value is in halves.)
C5_ObjectiveIsSumOfPreferences ==
    Returned => result.objectiveValue = 2 * ListScore(args, 1)

\* the same for the returns with status Optimal only
C5_ObjectiveIsSumWhenOptimal ==
    Optimal => result.objectiveValue = 2 * ListScore(args, 1)

\* C6: when no 0/1 assignment satisfies the six families, the status is
\* Infeasible and the returned list is empty.
C6_InfeasibleReturnsNothing ==
    (Returned /\ Schedules(args) = {}) =>
        /\ result.status = LpStatusInfeasible
        /\ result.assignments = <<>>

\* the status half of C6 alone
C6_InfeasibleStatus ==
    (Returned /\ Schedules(args) = {}) => result.status = LpStatusInfeasible

\* C7: the returned objective value is absent when the status is not Optimal.
C7_NoObjectiveUnlessOptimal ==
    (Returned /\ result.status # LpStatusOptimal) => result.objectiveValue \notin Int

\* C8: when some 0/1 assignment satisfies the six families, the status is
\* Optimal and no such assignment has a larger total preference than the
\* returned one.
C8_OptimalIsMaximal ==
    Returned =>
        LET all == Schedules(args)
        IN all # {} =>
              /\ result.status = LpStatusOptimal
              /\ {Tuple(i) : i \in Positions} \in all
              /\ \A T \in all : Score(args, T) <= ListScore(args, 1)

\* an Optimal return for an instance that also has a schedule of smaller
\* total preference
C8_Witness ==
    /\ Optimal
    /\ \E T \in Schedules(args) : Score(args, T) < ListScore(args, 1)

\* C9 as stated: whatever preference map the builder is given, the
\* coefficient it uses for a slot outside the professor's availability is 0.
C9_BuilderZeroesUnavailable ==
    pc # "idle" =>
        \A v \in AllTuples(args) :
            v[6] \notin ProfessorFree(args, v[1], v[2]) => prob.objective[v] = 0

\* C9 amended: the builder uses the preference it is given unchanged (a
\* missing key being 0); it is main() that gives 0 for every slot outside the
\* professor's availability, so the coefficient of such a slot is 0 when the
\* instance comes from main().
C9_InputLayerZeroesUnavailable ==
    pc # "idle" =>
        /\ \A v \in AllTuples(args) : prob.objective[v] = Preference(args, v)
        /\ caller = "main" =>
              \A v \in AllTuples(args) :
                  v[6] \notin ProfessorFree(args, v[1], v[2]) => prob.objective[v] = 0

\* a model built for main() with a slot outside a professor's availability
\* and a preferred slot
C9_Witness ==
    /\ pc = "built"
    /\ caller = "main"
    /\ \E v \in AllTuples(args) : v[6] \notin ProfessorFree(args, v[1], v[2])
    /\ \E v \in AllTuples(args) : prob.objective[v] > 0

\* C10: when the status is Optimal, the required periods of all
\* (Course, Group) pairs and the weekly loads of all Professors add up to the
\* same total, the length of the returned list.
C10_TotalsAgree ==
    Optimal =>
        /\ Total([k \in (1..args.Nc) \X (1..args.Ng) |-> Required(args, k[1], k[2])],
                 (1..args.Nc) \X (1..args.Ng)) = Len(result.assignments)
        /\ Total([p \in 1..args.Np |-> Load(args, p)], 1..args.Np) = Len(result.assignments)

\* an Optimal timetable of two lessons, one for each of two professors, both
\* of one pair
C10_Witness ==
    /\ Optimal
    /\ Len(result.assignments) = 2
    /\ \A p \in 1..args.Np : Load(args, p) = 1
    /\ \E c \in 1..args.Nc : \E g \in 1..args.Ng : Required(args, c, g) = 2

====
